---------------------------- MODULE Spec2Model ----------------------------
(***************************************************************************)
(* Model of the server-manager remote-execution engine:                    *)
(*   - ServerManagerApp (src/src/main.rs): the orchestrator that runs on   *)
(*     the UI thread (update, check_auth_failures, start_command,          *)
(*     submit_password, run_command, Cancel, Clear) and the executor       *)
(*     threads that run_command spawns, one step per lock-guarded access   *)
(*     to a host's shared fields;                                          *)
(*   - connect_and_execute_with_callback (src/src/ssh.rs): the channel     *)
(*     read loop with its line buffer;                                     *)
(*   - get_missing_passwords as a pure function of roster, store, filter.  *)
(* Option<T> is modelled as a sequence of length 0 (None) or 1 (Some).     *)
(* Text is modelled as a sequence of fragments (tokens or characters).     *)
(***************************************************************************)
EXTENDS Integers, Sequences, FiniteSets, TLC

VARIABLES
    servers,              \* Vec<ServerState>: the immutable part (name, ip, username, os_type)
    output,               \* ServerState.output, per host: the lines pushed so far
    is_running,           \* ServerState.is_running, per host
    status,               \* ServerState.status, per host
    auth_failed,          \* ServerState.auth_failed, per host
    poisoned,             \* per host: the Mutex of ServerState.output is poisoned
    threads,              \* per host: the live executor threads spawned by run_command
    passwords,            \* ServerManagerApp.passwords: username -> password
    password_needed_for,  \* Option<String>
    password_error,       \* Option<String>: Some(username the wrong-password text names)
    pending_command,      \* Option<PendingCommand>
    last_command,         \* Option<PendingCommand>
    ui_pc,                \* position of the UI thread inside update()
    ui_i,                 \* index of the Clear loop (0 outside it)
    clicks,               \* history: how many clicks the UI thread has handled
    dispatched,           \* history, per host: Option<{command, os_filter}> its executor runs
    failed_job,           \* history, per host: Option<{command, os_filter}> of the executor
                          \*   that set the auth_failed flag now standing
    recovering,           \* history: Option<host> whose auth failure opened the prompt
    last_start,           \* history: Option<{command, os_filter}> of the last start_command call
    superseded,           \* history, per host: the password its executor was dispatched with
                          \*   was replaced in the store by another one before the server
                          \*   answered, and the server has not accepted it
    ssh_pc,               \* connect_and_execute_with_callback: position
    remote_exit,          \* the exit status the remote command ends with
    nmsgs,                \* history: how many data or other messages the loop has read
    ssh_output,           \* ssh.rs `output`
    code,                 \* ssh.rs `code`: Option<u32>
    line_buffer,          \* ssh.rs `line_buffer`
    delivered,            \* the lines the callback was invoked with, in order
    ssh_result,           \* Option<Result>: the function's return value
    eof,                  \* history: the read loop ended on ChannelMsg::Eof
    mp_servers,           \* get_missing_passwords: the roster it is applied to
    mp_passwords,         \* get_missing_passwords: the store it is applied to
    mp_filter,            \* get_missing_passwords: the filter it is applied to
    mp_result,            \* Option<Vec<String>>: its return value
    ck_bytes,             \* the bytes the remote side sends on the primary stream
    ck_offset,            \* the offset at which the two-message delivery splits them
    ck_whole,             \* Option: the lines the callback got, bytes sent as one Data
    ck_split,             \* Option: the lines the callback got, bytes sent as two Data
    px_input,             \* parse_clixml: the text it is applied to
    px_result             \* Option: what the call yields (a text, or a panic)

hostVars == <<output, is_running, status, auth_failed, poisoned, threads>>
appVars  == <<passwords, password_needed_for, password_error, pending_command, last_command>>
uiVars   == <<ui_pc, ui_i, clicks>>
histVars == <<dispatched, failed_job, recovering, last_start, superseded>>
orchVars == <<servers, hostVars, appVars, uiVars, histVars>>
sshVars  == <<ssh_pc, remote_exit, nmsgs, ssh_output, code, line_buffer, delivered,
              ssh_result, eof>>
mpVars   == <<mp_servers, mp_passwords, mp_filter, mp_result>>
ckVars   == <<ck_bytes, ck_offset, ck_whole, ck_split>>
pxVars   == <<px_input, px_result>>
pureVars == <<mpVars, ckVars, pxVars>>
vars     == <<orchVars, sshVars, pureVars>>

-----------------------------------------------------------------------------
(* Bounds of the model.                                                    *)

\* clicks (command buttons, OK, Cancel, Clear) the user makes in one run
MaxClicks == 3
\* data and other messages one read loop receives before Eof or close
MaxMsgs == 3
\* hosts in a roster given to get_missing_passwords
MaxRoster == 3

-----------------------------------------------------------------------------
(* Values.                                                                 *)

None == <<>>
Some(x) == <<x>>
IsSome(o) == Len(o) = 1
Unwrap(o) == o[1]

\* config.rs OsType
OsType == {"Linux", "Windows"}
\* Option<OsType>
OsFilters == {None} \cup {Some(os) : os \in OsType}

Server(name, ip, username, os) ==
    [name |-> name, ip |-> ip, username |-> username, os_type |-> os]

\* Rosters servers.toml may hold (load_config accepts any list of entries).
Rosters ==
    { <<Server("H1", "10.0.0.1", "a", "Linux")>>,
      <<Server("H1", "10.0.0.1", "a", "Linux"), Server("H2", "10.0.0.2", "b", "Windows")>>,
      <<Server("H1", "10.0.0.1", "a", "Linux"), Server("H2", "10.0.0.2", "a", "Windows")>> }

\* The (command, os_filter) pairs the button bar passes to start_command.
Buttons ==
    { [command |-> "test_cmd",         os_filter |-> None],
      [command |-> "info_cmd_linux",   os_filter |-> Some("Linux")],
      [command |-> "info_cmd_windows", os_filter |-> Some("Windows")],
      [command |-> "update_linux_cmd", os_filter |-> Some("Linux")],
      [command |-> "update_windows_cmd", os_filter |-> Some("Windows")] }

\* Texts the user may type into the password field.
PasswordInputs == {"pw1", "pw2"}

\* What a remote command may print before it ends, as a sequence of lines:
\* nothing, or one line; the line is the text the error classification looks
\* for, or CLIXML markup behind a two-byte character.
RemoteOutputs == {<<>>, << <<"Authentication failed">> >>, << <<"U+00E9", "<", "S", " ">> >>}

\* Exit statuses a remote command may end with.
ExitStatuses == {0, 1}

Hosts == 1..Len(servers)


-----------------------------------------------------------------------------
(* Strings.  A text is a sequence of characters; a fragment such as          *)
(* "Authentication failed" stands for a run of ASCII characters that holds   *)
(* no markup and no white space.  Rust indexes a &str by bytes, so the       *)
(* functions that slice work on the UTF-8 form of a text: one entry per      *)
(* byte, the first byte of a character being the character and each          *)
(* following byte being Cont.                                                *)

NL == "\n"

\* The number of bytes of a character in UTF-8.
Utf8Len(c) == IF c = "U+00E9" THEN 2 ELSE IF c = "U+FFFD" THEN 3 ELSE 1

Cont == "cont"

\* The bytes of a text.
RECURSIVE Utf8(_)
Utf8(text) ==
    IF text = <<>> THEN <<>>
    ELSE <<Head(text)>> \o [k \in 1..(Utf8Len(Head(text)) - 1) |-> Cont] \o Utf8(Tail(text))

\* str::chars
Chars(bytes) == SelectSeq(bytes, LAMBDA b : b # Cont)

\* str::is_char_boundary, k a byte index counted from 0
IsCharBoundary(bytes, k) == k = Len(bytes) \/ (k < Len(bytes) /\ bytes[k + 1] # Cont)

\* &s[from..] and &s[from..to], byte indices counted from 0
SliceFrom(bytes, from) == SubSeq(bytes, from + 1, Len(bytes))
Slice(bytes, from, to) == SubSeq(bytes, from + 1, to)

\* str::starts_with
StartsWith(bytes, pat) == Len(bytes) >= Len(pat) /\ SubSeq(bytes, 1, Len(pat)) = pat

\* str::find: the byte offset, counted from 0, of the first match; -1 for None
Find(bytes, pat) ==
    IF \E k \in 0..(Len(bytes) - Len(pat)) : StartsWith(SliceFrom(bytes, k), pat)
    THEN CHOOSE k \in 0..(Len(bytes) - Len(pat)) :
            /\ StartsWith(SliceFrom(bytes, k), pat)
            /\ \A j \in 0..(k - 1) : ~StartsWith(SliceFrom(bytes, j), pat)
    ELSE -1

\* str::contains
StrContains(bytes, pat) == Find(bytes, pat) # -1

\* str::replace
RECURSIVE Replace(_, _, _)
Replace(bytes, pat, rep) ==
    IF Find(bytes, pat) = -1 THEN bytes
    ELSE SubSeq(bytes, 1, Find(bytes, pat)) \o rep
         \o Replace(SliceFrom(bytes, Find(bytes, pat) + Len(pat)), pat, rep)

\* str::trim
WhiteSpace == {" ", NL, "\t", "\r"}
RECURSIVE TrimStart(_)
TrimStart(text) ==
    IF text # <<>> /\ text[1] \in WhiteSpace THEN TrimStart(Tail(text)) ELSE text
RECURSIVE TrimEnd(_)
TrimEnd(text) ==
    IF text # <<>> /\ text[Len(text)] \in WhiteSpace
    THEN TrimEnd(SubSeq(text, 1, Len(text) - 1)) ELSE text
Trim(text) == TrimEnd(TrimStart(text))

-----------------------------------------------------------------------------
(* parse_clixml (main.rs 57-150).  The loop index i counts characters, and   *)
(* the code uses it as a byte index into `input`: a slice that starts inside *)
(* a character panics.                                                       *)

PatObj == <<"<", "O", "b", "j">>
PatS == <<"<", "S", " ">>
PatTagEnd == <<">">>
PatCloseS == <<"<", "/", "S", ">">>
PatCrLf == <<"_", "x", "0", "0", "0", "D", "_", "_", "x", "0", "0", "0", "A", "_">>
PatLt == <<"&", "l", "t", ";">>
PatGt == <<"&", "g", "t", ";">>
PatAmp == <<"&", "a", "m", "p", ";">>
PatQuot == <<"&", "q", "u", "o", "t", ";">>
PatError == <<"S", "=", "\"", "E", "r", "r", "o", "r", "\"">>
PatVerbose == <<"S", "=", "\"", "v", "e", "r", "b", "o", "s", "e", "\"">>
PatWarning == <<"S", "=", "\"", "w", "a", "r", "n", "i", "n", "g", "\"">>
PatToString == <<"<", "T", "o", "S", "t", "r", "i", "n", "g", ">">>
PatCloseToString == <<"<", "/", "T", "o", "S", "t", "r", "i", "n", "g", ">">>
PatSD == <<"<", "S", "D", ">">>
PatCloseSD == <<"<", "/", "S", "D", ">">>
TagError == <<"[", "E", "R", "R", "O", "R", "]", " ">>
TagVerbose == <<"[", "V", "E", "R", "B", "O", "S", "E", "]", " ">>
TagWarning == <<"[", "W", "A", "R", "N", "I", "N", "G", "]", " ">>
TagProgress == <<"[", "P", "R", "O", "G", "R", "E", "S", "S", "]", " ">>

\* What a call yields: the returned string, or a panic.
Returns(text) == [ok |-> TRUE, text |-> text]
Panics == [ok |-> FALSE, text |-> <<>>]

\* The content of an <S> element after the five replacements, trimmed (76-83).
CleanContent(content) ==
    Trim(Replace(Replace(Replace(Replace(Replace(content, PatCrLf, <<NL>>),
            PatLt, <<"<">>), PatGt, <<">">>), PatAmp, <<"&">>), PatQuot, <<"\"">>))

\* An <S> element pushed without looking at its tag.
PushS_Unprefixed(result, tag, content) ==
    IF CleanContent(content) = <<>> THEN result
    ELSE result \o CleanContent(content) \o <<NL>>

\* `result` after an <S> element with tag `tag` and content `content` (84-94).
PushS(result, tag, content) ==
    IF CleanContent(content) = <<>> THEN result
    ELSE result
         \o (IF StrContains(tag, PatError) THEN TagError
             ELSE IF StrContains(tag, PatVerbose) THEN TagVerbose
             ELSE IF StrContains(tag, PatWarning) THEN TagWarning
             ELSE <<>>)
         \o CleanContent(content) \o <<NL>>

\* The three tests the loop body makes at index i (67, 102, 116) and whether the
\* element each one looks for is complete.
AtS(input, i) ==
    /\ i + 2 < Len(Chars(input))
    /\ Chars(input)[i + 1] = "<"
    /\ Chars(input)[i + 2] = "S"
SFound(input, i) ==
    /\ Find(SliceFrom(input, i), PatTagEnd) # -1
    /\ Find(SliceFrom(input, i + Find(SliceFrom(input, i), PatTagEnd) + 1), PatCloseS) # -1
AtLong(input, i, len) == i + len < Len(Chars(input))
ElementFound(input, i, open, close) ==
    /\ StartsWith(SliceFrom(input, i), open)
    /\ Find(SliceFrom(input, i + Len(open)), close) # -1

\* `result` after a <ToString> element (105-110) and after an <SD> element (119-125).
PushToString(result, content) ==
    IF Trim(content) # <<>> /\ ~StartsWith(Trim(content), <<"<">>)
    THEN result \o Trim(content) \o <<NL>> ELSE result
PushSD(result, content) ==
    IF Trim(content) # <<>> THEN result \o TagProgress \o Trim(content) \o <<NL>> ELSE result

\* The while loop (66-132) from index i on with the text `result` built so far.
RECURSIVE ParseLoop(_, _, _)
ParseLoop(input, i, result) ==
    IF i >= Len(Chars(input)) THEN Returns(result)
    ELSE IF AtS(input, i) /\ ~IsCharBoundary(input, i) THEN Panics
    ELSE IF AtS(input, i) /\ SFound(input, i)
    THEN LET content_start == i + Find(SliceFrom(input, i), PatTagEnd) + 1
             close_pos == Find(SliceFrom(input, content_start), PatCloseS)
         IN ParseLoop(input, content_start + close_pos + 4,
                      PushS(result, Slice(input, i, content_start),
                            Slice(input, content_start, content_start + close_pos)))
    ELSE IF AtLong(input, i, 10) /\ ~IsCharBoundary(input, i) THEN Panics
    ELSE IF AtLong(input, i, 10) /\ ElementFound(input, i, PatToString, PatCloseToString)
    THEN LET content_start == i + 10
             close_pos == Find(SliceFrom(input, content_start), PatCloseToString)
         IN ParseLoop(input, content_start + close_pos + 11,
                      PushToString(result, Slice(input, content_start, content_start + close_pos)))
    ELSE IF AtLong(input, i, 4) /\ ~IsCharBoundary(input, i) THEN Panics
    ELSE IF AtLong(input, i, 4) /\ ElementFound(input, i, PatSD, PatCloseSD)
    THEN LET content_start == i + 4
             close_pos == Find(SliceFrom(input, content_start), PatCloseSD)
         IN ParseLoop(input, content_start + close_pos + 5,
                      PushSD(result, Slice(input, content_start, content_start + close_pos)))
    ELSE ParseLoop(input, i + 1, result)

\* The fallback (135-146): the characters outside < ... >.
RECURSIVE StripTags(_, _)
StripTags(chars, in_tag) ==
    IF chars = <<>> THEN <<>>
    ELSE IF Head(chars) = "<" THEN StripTags(Tail(chars), TRUE)
    ELSE IF Head(chars) = ">" THEN StripTags(Tail(chars), FALSE)
    ELSE IF ~in_tag THEN <<Head(chars)>> \o StripTags(Tail(chars), in_tag)
    ELSE StripTags(Tail(chars), in_tag)

\* A parse_clixml without the early return of lines 58-60.
ParseBytes_NoEarlyReturn(input) ==
    IF ~ParseLoop(input, 0, <<>>).ok THEN Panics
    ELSE IF Trim(ParseLoop(input, 0, <<>>).text) = <<>>
         THEN Returns(Utf8(StripTags(Chars(input), FALSE)))
    ELSE ParseLoop(input, 0, <<>>)

\* parse_clixml on the bytes of its argument.
ParseBytes(input) ==
    IF ~StrContains(input, PatObj) /\ ~StrContains(input, PatS) THEN Returns(input)
    ELSE IF ~ParseLoop(input, 0, <<>>).ok THEN Panics
    ELSE IF Trim(ParseLoop(input, 0, <<>>).text) = <<>>
         THEN Returns(Utf8(StripTags(Chars(input), FALSE)))
    ELSE ParseLoop(input, 0, <<>>)

parse_clixml(text) ==
    [ok |-> ParseBytes(Utf8(text)).ok, text |-> Chars(ParseBytes(Utf8(text)).text)]

-----------------------------------------------------------------------------
(* ServerState and PendingCommand.                                         *)

PendingCommand(command, os_filter) == [command |-> command, os_filter |-> os_filter]

\* The `if let Some(os) = os_filter { if &server.os_type != os { continue; } }` test.
MatchesFilter(server, os_filter) ==
    IsSome(os_filter) => server.os_type = Unwrap(os_filter)

\* HashMap::insert / HashMap::remove / HashMap::contains_key on the store.
MapInsert(m, k, v) == [x \in DOMAIN m \cup {k} |-> IF x = k THEN v ELSE m[x]]
MapRemove(m, k) == [x \in DOMAIN m \ {k} |-> m[x]]
ContainsKey(m, k) == k \in DOMAIN m
EmptyMap == [x \in {} |-> ""]

\* A Vec::contains that never finds the element.
SeqContains_Never(s, x) == FALSE

\* Vec::contains
SeqContains(s, x) == \E i \in 1..Len(s) : s[i] = x

\* A push that puts the text in the place of the buffer's content.
Pushed_Replacing(buf, clean) ==
    <<IF clean # <<>> /\ clean[Len(clean)] = NL THEN clean ELSE clean \o <<NL>>>>

\* `output.push_str(&clean); if !clean.ends_with('\n') { output.push('\n'); }`:
\* the buffer is kept as the sequence of the pieces pushed to it.
Pushed(buf, clean) ==
    Append(buf, IF clean # <<>> /\ clean[Len(clean)] = NL THEN clean ELSE clean \o <<NL>>)

\* ServerState::append_output for a text on which parse_clixml returns.
append_output(buf, text) == Pushed(buf, parse_clixml(text).text)

\* The text of the errors connect_and_execute_with_callback returns.
ErrConnect == <<"connect error">>
ErrAuth    == <<"Authentication failed">>
ErrChannel == <<"channel error">>
ErrCommand(exit_status, raw) ==
    <<"Command failed with exit code", ToString(exit_status), ":">> \o raw

\* ssh.rs `output` when the loop ends, trimmed: the lines received, each followed
\* by its newline.
RECURSIVE JoinLines(_)
JoinLines(lines) ==
    IF lines = <<>> THEN <<>> ELSE Head(lines) \o <<NL>> \o JoinLines(Tail(lines))

\* error_msg.contains("Authentication failed")
ContainsAuthFailed(error_msg) == SeqContains(error_msg, "Authentication failed")

\* A freshly spawned executor thread: the values the closure captured.
NewThread(password, cmd) ==
    [pc |-> "set_status_running", password |-> password, cmd |-> cmd,
     raw |-> <<>>, kind |-> "none", error_msg |-> <<>>]

-----------------------------------------------------------------------------
(* ServerManagerApp::get_missing_passwords                                 *)

\* The loop over `servers`, from index i on, with the accumulator `missing`.
RECURSIVE MissingLoop(_, _, _, _, _)
MissingLoop(srv, store, os_filter, i, missing) ==
    IF i > Len(srv) THEN missing
    ELSE IF ~MatchesFilter(srv[i], os_filter)
         THEN MissingLoop(srv, store, os_filter, i + 1, missing)
    ELSE IF ~ContainsKey(store, srv[i].username) /\ ~SeqContains(missing, srv[i].username)
         THEN MissingLoop(srv, store, os_filter, i + 1, Append(missing, srv[i].username))
    ELSE MissingLoop(srv, store, os_filter, i + 1, missing)

get_missing_passwords(srv, store, os_filter) == MissingLoop(srv, store, os_filter, 1, <<>>)

-----------------------------------------------------------------------------
(* ServerManagerApp::run_command                                           *)

\* The dispatch loop without its `if server.is_running() { continue; }` test.
Eligible_NoRunningTest(h, os_filter, store) ==
    /\ MatchesFilter(servers[h], os_filter)
    /\ ContainsKey(store, servers[h].username)

\* The three `continue` tests of the dispatch loop for host h.
Eligible(h, os_filter, store) ==
    /\ MatchesFilter(servers[h], os_filter)
    /\ ~is_running[h]
    /\ ContainsKey(store, servers[h].username)

ConnectingBanner(h) == <<">>> Connecting to", servers[h].username, servers[h].ip>>

\* run_command(command, os_filter) reading the store `store`: records the command
\* as last_command, then for every eligible host clears the output, sets running,
\* sets the status, writes the banner and spawns the executor thread.
\* The loop is one step: the only shared field it reads is is_running, which an
\* executor only ever sets to false as its last access, and an executor of one host
\* touches no field of another host, so every interleaving of the loop with
\* executor steps leads to a state that this step reaches after or before them.
run_command(command, os_filter, store) ==
    /\ last_command' = Some(PendingCommand(command, os_filter))
    /\ output' = [h \in Hosts |->
            IF Eligible(h, os_filter, store)
            THEN append_output(<<>>, ConnectingBanner(h)) ELSE output[h]]
    /\ is_running' = [h \in Hosts |-> Eligible(h, os_filter, store) \/ is_running[h]]
    /\ status' = [h \in Hosts |->
            IF Eligible(h, os_filter, store) THEN "Connecting..." ELSE status[h]]
    /\ threads' = [h \in Hosts |->
            IF Eligible(h, os_filter, store)
            THEN Append(threads[h], NewThread(store[servers[h].username], command))
            ELSE threads[h]]
    /\ UNCHANGED <<auth_failed, poisoned>>

-----------------------------------------------------------------------------
(* ServerManagerApp::check_auth_failures                                   *)

\* A scan that may stop at any host whose flag is set.
FirstAuthFailed_Any(h) == auth_failed[h]

\* The host at which the scan stops: the first one whose flag is set.
FirstAuthFailed(h) ==
    /\ auth_failed[h]
    /\ \A g \in Hosts : g < h => ~auth_failed[g]

\* A pass that acts on the first flagged host and clears the flag of every host.
check_auth_failures_ClearsAll ==
    IF \E h \in Hosts : auth_failed[h]
    THEN \E h \in Hosts :
            /\ FirstAuthFailed(h)
            /\ auth_failed' = [g \in Hosts |-> FALSE]
            /\ passwords' = MapRemove(passwords, servers[h].username)
            /\ password_error' = Some(servers[h].username)
            /\ password_needed_for' = Some(servers[h].username)
            /\ pending_command' = IF IsSome(last_command) THEN last_command
                                  ELSE pending_command
    ELSE UNCHANGED <<auth_failed, passwords, password_error, password_needed_for,
                     pending_command>>

\* A pass that opens the prompt and leaves the rejected password in the store.
check_auth_failures_KeepsPassword ==
    IF \E h \in Hosts : auth_failed[h]
    THEN \E h \in Hosts :
            /\ FirstAuthFailed(h)
            /\ auth_failed' = [auth_failed EXCEPT ![h] = FALSE]
            /\ passwords' = passwords
            /\ password_error' = Some(servers[h].username)
            /\ password_needed_for' = Some(servers[h].username)
            /\ pending_command' = IF IsSome(last_command) THEN last_command
                                  ELSE pending_command
    ELSE UNCHANGED <<auth_failed, passwords, password_error, password_needed_for,
                     pending_command>>

\* The scan is one step: a flag an executor sets behind the scan's position is
\* not read by this pass, so such a pass equals this step taken before that set.
check_auth_failures ==
    IF \E h \in Hosts : auth_failed[h]
    THEN \E h \in Hosts :
            /\ FirstAuthFailed(h)
            /\ auth_failed' = [auth_failed EXCEPT ![h] = FALSE]
            /\ passwords' = MapRemove(passwords, servers[h].username)
            /\ password_error' = Some(servers[h].username)
            /\ password_needed_for' = Some(servers[h].username)
            /\ pending_command' = IF IsSome(last_command) THEN last_command
                                  ELSE pending_command
    ELSE UNCHANGED <<auth_failed, passwords, password_error, password_needed_for,
                     pending_command>>

-----------------------------------------------------------------------------
(* ServerManagerApp::start_command, submit_password, Cancel                *)

\* A start_command that dispatches to the hosts whose password is on file even
\* when a credential is missing.
start_command_Dispatching(command, os_filter) ==
    LET missing == get_missing_passwords(servers, passwords, os_filter) IN
    /\ run_command(command, os_filter, passwords)
    /\ IF missing = <<>>
       THEN UNCHANGED <<passwords, password_needed_for, password_error, pending_command>>
       ELSE /\ pending_command' = Some(PendingCommand(command, os_filter))
            /\ password_needed_for' = Some(missing[1])
            /\ password_error' = None
            /\ UNCHANGED passwords

start_command(command, os_filter) ==
    LET missing == get_missing_passwords(servers, passwords, os_filter) IN
    IF missing = <<>>
    THEN /\ run_command(command, os_filter, passwords)
         /\ UNCHANGED <<passwords, password_needed_for, password_error, pending_command>>
    ELSE /\ pending_command' = Some(PendingCommand(command, os_filter))
         /\ password_needed_for' = Some(missing[1])
         /\ password_error' = None
         /\ UNCHANGED <<hostVars, passwords, last_command>>

\* A submit_password that re-runs the dispatch and clears the pending command
\* without recomputing the missing usernames.
submit_password_NoRecheck(password_input) ==
    IF IsSome(password_needed_for)
    THEN LET store == MapInsert(passwords, Unwrap(password_needed_for), password_input) IN
         /\ passwords' = store
         /\ password_error' = None
         /\ password_needed_for' = None
         /\ pending_command' = None
         /\ IF IsSome(pending_command)
            THEN run_command(Unwrap(pending_command).command,
                             Unwrap(pending_command).os_filter, store)
            ELSE UNCHANGED <<hostVars, last_command>>
    ELSE UNCHANGED <<hostVars, appVars>>

\* submit_password with `password_input` holding the text the user typed.
submit_password(password_input) ==
    IF IsSome(password_needed_for)
    THEN LET store == MapInsert(passwords, Unwrap(password_needed_for), password_input) IN
         /\ passwords' = store
         /\ password_error' = None
         /\ IF IsSome(pending_command)
            THEN LET pending == Unwrap(pending_command)
                     missing == get_missing_passwords(servers, store, pending.os_filter) IN
                 IF missing = <<>>
                 THEN /\ run_command(pending.command, pending.os_filter, store)
                      /\ pending_command' = None
                      /\ password_needed_for' = None
                 ELSE /\ pending_command' = Some(pending)
                      /\ password_needed_for' = Some(missing[1])
                      /\ UNCHANGED <<hostVars, last_command>>
            ELSE /\ password_needed_for' = None
                 /\ UNCHANGED <<hostVars, pending_command, last_command>>
    ELSE UNCHANGED <<hostVars, appVars>>

\* A Cancel that also forgets the stored passwords.
cancel_Forgetting ==
    /\ password_needed_for' = None
    /\ pending_command' = None
    /\ password_error' = None
    /\ passwords' = EmptyMap
    /\ UNCHANGED <<hostVars, last_command>>

\* A Cancel that closes the dialog and keeps the pending command.
cancel_KeepsPending ==
    /\ password_needed_for' = None
    /\ password_error' = None
    /\ UNCHANGED <<hostVars, passwords, pending_command, last_command>>

\* The Cancel button of the password dialog.
cancel ==
    /\ password_needed_for' = None
    /\ pending_command' = None
    /\ password_error' = None
    /\ UNCHANGED <<hostVars, passwords, last_command>>


-----------------------------------------------------------------------------
(* The executor thread spawned by run_command (main.rs 334-375), one action *)
(* per access to the host's shared fields.  The return of                   *)
(* connect_and_execute_with_callback touches no shared field, so it is      *)
(* taken together with the thread's next access, append_output("---").      *)

Thread(h, i) == threads[h][i]
SetThread(h, i, t) == [threads EXCEPT ![h][i] = t]
RemoveThread(h, i) ==
    [threads EXCEPT ![h] = [j \in 1..(Len(threads[h]) - 1) |->
                                IF j < i THEN threads[h][j] ELSE threads[h][j + 1]]]
ThreadAt(h, i, pc) == i \in 1..Len(threads[h]) /\ Thread(h, i).pc = pc

\* The branch the error arm takes (main.rs 365).
IsAuthError(t) == t.kind # "Ok" /\ ContainsAuthFailed(t.error_msg)

\* The history variables keep a host's job while its executor may still report an
\* authentication failure, and hand it to failed_job when the flag is set.
MayFailAuth(t) ==
    \/ t.pc \in {"set_status_running", "connect", "channel", "set_auth_failed"}
    \/ t.pc = "append_banner" /\ IsAuthError(t)

\* What a step of thread i of host h leaves unchanged, and its history.
ExecFrame(h, i) ==
    /\ failed_job' = IF Thread(h, i).pc = "set_auth_failed"
                     THEN [failed_job EXCEPT ![h] = dispatched[h]]
                     ELSE failed_job
    /\ dispatched' = IF i <= Len(threads'[h]) /\ MayFailAuth(threads'[h][i])
                        /\ Thread(h, i).pc # "set_auth_failed"
                     THEN dispatched
                     ELSE [dispatched EXCEPT ![h] = None]
    /\ superseded' = IF Thread(h, i).pc = "connect"
                         /\ threads'[h][i].kind # "AuthenticationFailed"
                      THEN [superseded EXCEPT ![h] = FALSE]
                      ELSE superseded
    /\ UNCHANGED <<servers, appVars, uiVars, recovering, last_start, sshVars, pureVars>>

\* The fields of the host a step of its executor leaves alone, the poison apart.
ExecKeeps(h, i) == ExecFrame(h, i) /\ UNCHANGED poisoned

\* server_state.set_status("Running...")
ExecSetStatusRunning(h, i) ==
    /\ ThreadAt(h, i, "set_status_running")
    /\ status' = [status EXCEPT ![h] = "Running..."]
    /\ threads' = SetThread(h, i, [Thread(h, i) EXCEPT !.pc = "connect"])
    /\ UNCHANGED <<output, is_running, auth_failed>>
    /\ ExecKeeps(h, i)

\* connect_and_execute_with_callback returns `result`: password, cmd and the raw
\* output are not read after the call, only the result is.
Returned(t, kind, error_msg) ==
    [t EXCEPT !.pc = "append_banner", !.kind = kind, !.error_msg = error_msg,
              !.password = "", !.cmd = "", !.raw = <<>>]

\* The call returns `result` and the thread does server_state.append_output("---").
ExecReturn(h, i, kind, error_msg) ==
    /\ threads' = SetThread(h, i, Returned(Thread(h, i), kind, error_msg))
    /\ output' = [output EXCEPT ![h] = append_output(@, <<"---">>)]
    /\ UNCHANGED <<is_running, status, auth_failed>>
    /\ ExecKeeps(h, i)

\* client::connect(...).await? fails
ExecConnectFailed(h, i) ==
    /\ ThreadAt(h, i, "connect")
    /\ ExecReturn(h, i, "ConnectFailed", ErrConnect)

\* authenticate_password returns false
ExecAuthRejected(h, i) ==
    /\ ThreadAt(h, i, "connect")
    /\ ExecReturn(h, i, "AuthenticationFailed", ErrAuth)

\* authenticate_password returns true; the password is not read again
ExecAuthAccepted(h, i) ==
    /\ ThreadAt(h, i, "connect")
    /\ threads' = SetThread(h, i, [Thread(h, i) EXCEPT !.pc = "channel", !.password = ""])
    /\ UNCHANGED <<output, is_running, status, auth_failed>>
    /\ ExecKeeps(h, i)

\* channel_open_session().await? or channel.exec(...).await? fails
ExecChannelError(h, i) ==
    /\ ThreadAt(h, i, "channel")
    /\ Thread(h, i).raw = <<>>
    /\ ExecReturn(h, i, "ChannelError", ErrChannel)

\* The remote command prints `line` next.
NextLine(h, i, line) ==
    \E out \in RemoteOutputs :
        /\ Len(Thread(h, i).raw) < Len(out)
        /\ SubSeq(out, 1, Len(Thread(h, i).raw) + 1) = Append(Thread(h, i).raw, line)

\* The line callback (main.rs 344-351): the cleaned line is pushed to the output.
ExecLine(h, i, line) ==
    /\ ThreadAt(h, i, "channel")
    /\ NextLine(h, i, line)
    /\ parse_clixml(line).ok
    /\ output' = [output EXCEPT ![h] = Pushed(@, parse_clixml(line).text)]
    /\ threads' = SetThread(h, i, [Thread(h, i) EXCEPT !.raw = Append(@, line)])
    /\ UNCHANGED <<is_running, status, auth_failed>>
    /\ ExecKeeps(h, i)

\* The line callback panics in parse_clixml while it holds the lock of the output:
\* the thread unwinds and ends, the Mutex is poisoned, and nothing of lines
\* 347-374 runs.
ExecLinePanics(h, i, line) ==
    /\ ThreadAt(h, i, "channel")
    /\ NextLine(h, i, line)
    /\ ~parse_clixml(line).ok
    /\ poisoned' = [poisoned EXCEPT ![h] = TRUE]
    /\ threads' = RemoveThread(h, i)
    /\ UNCHANGED <<output, is_running, status, auth_failed>>
    /\ ExecFrame(h, i)

\* The read loop ends and the exit status decides the result (ssh.rs 94-104).
ExecFinished(h, i, exit_status) ==
    /\ ThreadAt(h, i, "channel")
    /\ IF exit_status # 0
       THEN ExecReturn(h, i, "CommandFailed",
                       ErrCommand(exit_status, Trim(JoinLines(Thread(h, i).raw))))
       ELSE ExecReturn(h, i, "Ok", <<>>)

\* What the thread does after the banner: error_msg is not read again.
AfterBanner(t) ==
    [t EXCEPT !.error_msg = <<>>,
              !.pc = IF t.kind = "Ok" THEN "set_status_done"
                     ELSE IF IsAuthError(t) THEN "set_auth_failed"
                     ELSE "set_status_error"]

\* server_state.append_output(">>> Done") / (">>> ERROR: {error_msg}")
ExecAppendBanner(h, i) ==
    /\ ThreadAt(h, i, "append_banner")
    /\ output' = [output EXCEPT ![h] = append_output(@,
            IF Thread(h, i).kind = "Ok" THEN <<">>> Done">>
            ELSE <<">>> ERROR:">> \o Thread(h, i).error_msg)]
    /\ threads' = SetThread(h, i, AfterBanner(Thread(h, i)))
    /\ UNCHANGED <<is_running, status, auth_failed>>
    /\ ExecKeeps(h, i)

\* server_state.set_auth_failed(true)
ExecSetAuthFailed(h, i) ==
    /\ ThreadAt(h, i, "set_auth_failed")
    /\ auth_failed' = [auth_failed EXCEPT ![h] = TRUE]
    /\ threads' = SetThread(h, i, [Thread(h, i) EXCEPT !.pc = "set_status_auth_failed"])
    /\ UNCHANGED <<output, is_running, status>>
    /\ ExecKeeps(h, i)

\* A `match result` whose arms leave the status at "Running...".
FinalStatus_Stale(pc) == "Running..."

\* A `match result` whose every arm sets the status "Error".
FinalStatus_Error(pc) == "Error"

\* The status each arm of `match result` sets.
FinalStatus(pc) ==
    IF pc = "set_status_done" THEN "Done"
    ELSE IF pc = "set_status_auth_failed" THEN "Auth Failed"
    ELSE "Error"

\* server_state.set_status("Done" / "Auth Failed" / "Error")
ExecSetStatus(h, i) ==
    /\ i \in 1..Len(threads[h])
    /\ Thread(h, i).pc \in {"set_status_done", "set_status_auth_failed", "set_status_error"}
    /\ status' = [status EXCEPT ![h] = FinalStatus(Thread(h, i).pc)]
    \* `result` goes out of scope at the end of the match (main.rs 372)
    /\ threads' = SetThread(h, i, [Thread(h, i) EXCEPT !.pc = "set_running_false",
                                                        !.kind = "none"])
    /\ UNCHANGED <<output, is_running, auth_failed>>
    /\ ExecKeeps(h, i)

\* server_state.set_running(false); the closure returns and the thread ends.
ExecSetRunningFalse(h, i) ==
    /\ ThreadAt(h, i, "set_running_false")
    /\ is_running' = [is_running EXCEPT ![h] = FALSE]
    /\ threads' = RemoveThread(h, i)
    /\ UNCHANGED <<output, status, auth_failed>>
    /\ ExecKeeps(h, i)

-----------------------------------------------------------------------------
(* ServerManagerApp::update (main.rs 418-533): each frame runs              *)
(* check_auth_failures and then handles at most one click.                  *)

Tick ==
    /\ ui_pc = "tick"
    /\ check_auth_failures
    /\ ui_pc' = "input"
    /\ recovering' = IF \E h \in Hosts : auth_failed[h]
                     THEN Some(CHOOSE h \in Hosts : auth_failed[h] /\ ~auth_failed'[h])
                     ELSE recovering
    /\ failed_job' = [h \in Hosts |->
                        IF auth_failed[h] /\ ~auth_failed'[h] THEN None ELSE failed_job[h]]
    /\ superseded' = [h \in Hosts |-> superseded[h] /\ ~(auth_failed[h] /\ ~auth_failed'[h])]
    /\ UNCHANGED <<servers, output, is_running, status, poisoned, threads, last_command,
                   ui_i, clicks, dispatched, last_start, sshVars, pureVars>>

\* One of the command buttons was clicked.
StartCommand(b) ==
    /\ ui_pc = "input"
    /\ clicks < MaxClicks
    /\ clicks' = clicks + 1
    /\ start_command(b.command, b.os_filter)
    /\ last_start' = Some(b)
    /\ dispatched' = [h \in Hosts |->
                        IF Len(threads'[h]) > Len(threads[h]) THEN Some(b) ELSE dispatched[h]]
    /\ recovering' = IF password_needed_for' = password_needed_for THEN recovering ELSE None
    /\ ui_pc' = "tick"
    /\ UNCHANGED <<servers, ui_i, failed_job, superseded, sshVars, pureVars>>

\* OK or Enter in the password dialog, shown while password_needed_for is Some.
SubmitPassword(password_input) ==
    /\ ui_pc = "input"
    /\ IsSome(password_needed_for)
    /\ clicks < MaxClicks
    /\ clicks' = clicks + 1
    /\ submit_password(password_input)
    /\ dispatched' = [h \in Hosts |->
                        IF Len(threads'[h]) > Len(threads[h])
                        THEN pending_command ELSE dispatched[h]]
    /\ recovering' = None
    /\ superseded' = [h \in Hosts |->
                        \/ superseded[h]
                        \/ /\ servers[h].username = Unwrap(password_needed_for)
                           /\ \E i \in 1..Len(threads[h]) :
                                 /\ Thread(h, i).pc \in {"set_status_running", "connect"}
                                 /\ Thread(h, i).password # password_input]
    /\ ui_pc' = "tick"
    /\ UNCHANGED <<servers, ui_i, failed_job, last_start, sshVars, pureVars>>

Cancel ==
    /\ ui_pc = "input"
    /\ IsSome(password_needed_for)
    /\ clicks < MaxClicks
    /\ clicks' = clicks + 1
    /\ cancel
    /\ recovering' = None
    /\ ui_pc' = "tick"
    /\ UNCHANGED <<servers, ui_i, dispatched, failed_job, last_start, superseded,
                   sshVars, pureVars>>

\* `lock().unwrap()` on a poisoned Mutex panics; a panic of the UI thread is a
\* panic of main, so the process exits and its executor threads end with it.
ProcessExits ==
    /\ ui_pc' = "exited"
    /\ threads' = [h \in Hosts |-> <<>>]

\* The Clear button: for each server, clear_output() and then set_status("Ready").
ClearOutput ==
    /\ \/ ui_pc = "input" /\ clicks < MaxClicks /\ clicks' = clicks + 1 /\ ui_i' = 1
       \/ ui_pc = "clear_output" /\ clicks' = clicks /\ ui_i' = ui_i
    /\ IF poisoned[ui_i']
       THEN ProcessExits /\ UNCHANGED output
       ELSE /\ output' = [output EXCEPT ![ui_i'] = <<>>]
            /\ ui_pc' = "clear_status"
            /\ UNCHANGED threads
    /\ UNCHANGED <<servers, is_running, status, auth_failed, poisoned, appVars, histVars,
                   sshVars, pureVars>>

\* The central panel shows the output of the selected tab (main.rs 623-659) at the
\* end of a frame.  Which tab is selected is the user's choice (main.rs 595-600,
\* taken in the same frame) and has no other effect, so it is not kept in the
\* state: a frame may show any host.  Showing a host whose Mutex is sound changes
\* nothing; get_output() on a poisoned one panics.
ShowOutputPanics(h) ==
    /\ ui_pc = "tick"
    /\ poisoned[h]
    /\ ProcessExits
    /\ UNCHANGED <<servers, output, is_running, status, auth_failed, poisoned, appVars,
                   ui_i, clicks, histVars, sshVars, pureVars>>

ClearStatus ==
    /\ ui_pc = "clear_status"
    /\ status' = [status EXCEPT ![ui_i] = "Ready"]
    /\ IF ui_i < Len(servers)
       THEN ui_pc' = "clear_output" /\ ui_i' = ui_i + 1
       ELSE ui_pc' = "tick" /\ ui_i' = 0
    /\ UNCHANGED <<servers, output, is_running, auth_failed, poisoned, threads, appVars,
                   clicks, histVars, sshVars, pureVars>>

\* A frame in which nothing was clicked.
NoInput ==
    /\ ui_pc = "input"
    /\ ui_pc' = "tick"
    /\ UNCHANGED <<servers, hostVars, appVars, ui_i, clicks, histVars, sshVars, pureVars>>

-----------------------------------------------------------------------------
(* ServerManagerApp::new and the specification of the application.          *)

OrchNew(roster) ==
    /\ servers = roster
    /\ output = [h \in Hosts |-> <<>>]
    /\ is_running = [h \in Hosts |-> FALSE]
    /\ status = [h \in Hosts |-> "Ready"]
    /\ auth_failed = [h \in Hosts |-> FALSE]
    /\ poisoned = [h \in Hosts |-> FALSE]
    /\ threads = [h \in Hosts |-> <<>>]
    /\ passwords = EmptyMap
    /\ password_needed_for = None
    /\ password_error = None
    /\ pending_command = None
    /\ last_command = None
    /\ ui_pc = "tick"
    /\ ui_i = 0
    /\ clicks = 0
    /\ dispatched = [h \in Hosts |-> None]
    /\ failed_job = [h \in Hosts |-> None]
    /\ recovering = None
    /\ last_start = None
    /\ superseded = [h \in Hosts |-> FALSE]

\* config::load_config succeeded with one of the rosters.
OrchInit == \E roster \in Rosters : OrchNew(roster)

\* config::load_config failed: `servers` is Vec::new().
OrchIdle == OrchNew(<<>>)

SshIdle ==
    /\ ssh_pc = "idle"
    /\ remote_exit = 0
    /\ nmsgs = 0
    /\ ssh_output = <<>>
    /\ code = None
    /\ line_buffer = <<>>
    /\ delivered = <<>>
    /\ ssh_result = None
    /\ eof = FALSE

MpIdle ==
    /\ mp_servers = <<>>
    /\ mp_passwords = EmptyMap
    /\ mp_filter = None
    /\ mp_result = None

CkIdle ==
    /\ ck_bytes = <<>>
    /\ ck_offset = 0
    /\ ck_whole = None
    /\ ck_split = None

PxIdle ==
    /\ px_input = <<>>
    /\ px_result = None

Init == OrchInit /\ SshIdle /\ MpIdle /\ CkIdle /\ PxIdle

Next ==
    \/ Tick
    \/ \E b \in Buttons : StartCommand(b)
    \/ \E password_input \in PasswordInputs : SubmitPassword(password_input)
    \/ Cancel
    \/ ClearOutput
    \/ ClearStatus
    \/ NoInput
    \/ \E h \in Hosts : ShowOutputPanics(h)
    \/ \E h \in Hosts : \E i \in 1..Len(threads[h]) : ExecSetStatusRunning(h, i)
    \/ \E h \in Hosts : \E i \in 1..Len(threads[h]) : ExecConnectFailed(h, i)
    \/ \E h \in Hosts : \E i \in 1..Len(threads[h]) : ExecAuthRejected(h, i)
    \/ \E h \in Hosts : \E i \in 1..Len(threads[h]) : ExecAuthAccepted(h, i)
    \/ \E h \in Hosts : \E i \in 1..Len(threads[h]) : ExecChannelError(h, i)
    \/ \E h \in Hosts : \E i \in 1..Len(threads[h]) : \E out \in RemoteOutputs : \E k \in 1..Len(out) :
            ExecLine(h, i, out[k])
    \/ \E h \in Hosts : \E i \in 1..Len(threads[h]) : \E out \in RemoteOutputs : \E k \in 1..Len(out) :
            ExecLinePanics(h, i, out[k])
    \/ \E h \in Hosts : \E i \in 1..Len(threads[h]) : \E exit_status \in ExitStatuses :
            ExecFinished(h, i, exit_status)
    \/ \E h \in Hosts : \E i \in 1..Len(threads[h]) : ExecAppendBanner(h, i)
    \/ \E h \in Hosts : \E i \in 1..Len(threads[h]) : ExecSetAuthFailed(h, i)
    \/ \E h \in Hosts : \E i \in 1..Len(threads[h]) : ExecSetStatus(h, i)
    \/ \E h \in Hosts : \E i \in 1..Len(threads[h]) : ExecSetRunningFalse(h, i)

Spec == Init /\ [][Next]_vars

-----------------------------------------------------------------------------
(* The application started on the roster of one Linux host, with executor   *)
(* threads that are scheduled fairly: a thread that can take a step         *)
(* (std::thread::spawn, main.rs 334) is not left waiting for ever.          *)

OneHostRoster == <<Server("H1", "10.0.0.1", "a", "Linux")>>

InitOneHost == OrchNew(OneHostRoster) /\ SshIdle /\ MpIdle /\ CkIdle /\ PxIdle

\* The steps of the executor threads.
ExecutorStep ==
    \E h \in Hosts : \E i \in 1..Len(threads[h]) :
        \/ ExecSetStatusRunning(h, i)
        \/ ExecConnectFailed(h, i)
        \/ ExecAuthRejected(h, i)
        \/ ExecAuthAccepted(h, i)
        \/ ExecChannelError(h, i)
        \/ \E out \in RemoteOutputs : \E k \in 1..Len(out) :
                ExecLine(h, i, out[k]) \/ ExecLinePanics(h, i, out[k])
        \/ \E exit_status \in ExitStatuses : ExecFinished(h, i, exit_status)
        \/ ExecAppendBanner(h, i)
        \/ ExecSetAuthFailed(h, i)
        \/ ExecSetStatus(h, i)
        \/ ExecSetRunningFalse(h, i)

SpecOneHost == InitOneHost /\ [][Next]_vars /\ WF_vars(ExecutorStep)

-----------------------------------------------------------------------------
(* The application with frames that keep coming: update() requests a        *)
(* repaint at the end of every frame, so a frame that can run does run.     *)

\* The steps of the UI thread.
UiStep ==
    \/ Tick
    \/ \E b \in Buttons : StartCommand(b)
    \/ \E password_input \in PasswordInputs : SubmitPassword(password_input)
    \/ Cancel
    \/ ClearOutput
    \/ ClearStatus
    \/ NoInput
    \/ \E h \in Hosts : ShowOutputPanics(h)

SpecFrames == Init /\ [][Next]_vars /\ WF_vars(UiStep)

-----------------------------------------------------------------------------
(* connect_and_execute_with_callback (ssh.rs 13-106).  Text is a sequence   *)
(* of characters; a chunk of data is a sequence of bytes.  The primary      *)
(* stream carries the bytes of "o", newline and the two bytes C3 A9 of one  *)
(* two-byte character; the extended stream carries "e" and newline.         *)

DataChunks ==
    { <<"o">>, <<NL>>, <<"o", NL>>, <<NL, "o">>, <<"o", "o">>, <<NL, NL>>,
      <<"C3", "A9">>, <<"C3">>, <<"A9">> }
ExtChunks == { <<"e">>, <<NL>>, <<"e", NL>>, <<NL, "e">> }
\* data_type_code of an extended-data message: 1 is stderr
ExtCodes == {1, 2}
\* An extended stream of another type carries "d" and newline.
OtherExtChunks == { <<"d">>, <<NL>>, <<"d", NL>>, <<NL, "d">> }
ExtChunksOf(ext) == IF ext = 1 THEN ExtChunks ELSE OtherExtChunks

\* String::from_utf8_lossy: a well-formed two-byte sequence is one character, a
\* byte that is part of no well-formed sequence becomes U+FFFD.
RECURSIVE from_utf8_lossy(_)
from_utf8_lossy(data) ==
    IF data = <<>> THEN <<>>
    ELSE IF Len(data) >= 2 /\ data[1] = "C3" /\ data[2] = "A9"
         THEN <<"U+00E9">> \o from_utf8_lossy(SubSeq(data, 3, Len(data)))
    ELSE IF data[1] \in {"C3", "A9"}
         THEN <<"U+FFFD">> \o from_utf8_lossy(Tail(data))
    ELSE <<data[1]>> \o from_utf8_lossy(Tail(data))

\* str::find('\n'): the first position of a newline, 0 for None
FindNewline(buf) ==
    IF \E k \in 1..Len(buf) : buf[k] = NL
    THEN CHOOSE k \in 1..Len(buf) : buf[k] = NL /\ \A j \in 1..(k - 1) : buf[j] # NL
    ELSE 0

\* The `while let Some(pos) = line_buffer.find('\n')` loop: the lines it hands to
\* the callback, each behind `prefix`, and what it leaves in the buffer.
RECURSIVE DrainedLines(_, _)
DrainedLines(buf, prefix) ==
    IF FindNewline(buf) = 0 THEN <<>>
    ELSE <<prefix \o SubSeq(buf, 1, FindNewline(buf) - 1)>>
         \o DrainedLines(SubSeq(buf, FindNewline(buf) + 1, Len(buf)), prefix)

RECURSIVE DrainedRest(_)
DrainedRest(buf) ==
    IF FindNewline(buf) = 0 THEN buf
    ELSE DrainedRest(SubSeq(buf, FindNewline(buf) + 1, Len(buf)))

StderrPrefix == <<"[stderr] ">>

SshOk(out) == [ok |-> TRUE, output |-> out, error |-> <<>>]
SshErr(error_msg) == [ok |-> FALSE, output |-> <<>>, error |-> error_msg]

\* `?` on client::connect
SshConnect ==
    /\ ssh_pc = "connect"
    /\ \/ ssh_pc' = "authenticate" /\ UNCHANGED ssh_result
       \/ ssh_pc' = "done" /\ ssh_result' = Some(SshErr(ErrConnect))
    /\ UNCHANGED <<remote_exit, nmsgs, ssh_output, code, line_buffer, delivered, eof,
                   orchVars, pureVars>>

\* An authenticate_password whose rejection is recorded while the function goes on
\* to open the channel.
SshAuthenticate_GoesOn ==
    /\ ssh_pc = "authenticate"
    /\ ssh_pc' = "open_channel"
    /\ \/ UNCHANGED ssh_result
       \/ ssh_result' = Some(SshErr(ErrAuth))
    /\ UNCHANGED <<remote_exit, nmsgs, ssh_output, code, line_buffer, delivered, eof,
                   orchVars, pureVars>>

\* authenticate_password: true, false, or an error of the transport
SshAuthenticate ==
    /\ ssh_pc = "authenticate"
    /\ \/ ssh_pc' = "open_channel" /\ UNCHANGED ssh_result
       \/ ssh_pc' = "done" /\ ssh_result' = Some(SshErr(ErrAuth))
       \/ ssh_pc' = "done" /\ ssh_result' = Some(SshErr(ErrConnect))
    /\ UNCHANGED <<remote_exit, nmsgs, ssh_output, code, line_buffer, delivered, eof,
                   orchVars, pureVars>>

\* channel_open_session and channel.exec(true, command)
SshOpenChannel ==
    /\ ssh_pc = "open_channel"
    /\ \/ ssh_pc' = "loop" /\ UNCHANGED ssh_result
       \/ ssh_pc' = "done" /\ ssh_result' = Some(SshErr(ErrChannel))
    /\ UNCHANGED <<remote_exit, nmsgs, ssh_output, code, line_buffer, delivered, eof,
                   orchVars, pureVars>>

\* Some(ChannelMsg::Data { data })
RecvData(data) ==
    /\ ssh_pc = "loop"
    /\ nmsgs < MaxMsgs
    /\ nmsgs' = nmsgs + 1
    /\ ssh_output' = ssh_output \o from_utf8_lossy(data)
    /\ delivered' = delivered \o DrainedLines(line_buffer \o from_utf8_lossy(data), <<>>)
    /\ line_buffer' = DrainedRest(line_buffer \o from_utf8_lossy(data))
    /\ UNCHANGED <<ssh_pc, remote_exit, code, ssh_result, eof, orchVars, pureVars>>

\* Some(ChannelMsg::ExtendedData { data, ext })
RecvExtendedData(data, ext) ==
    /\ ssh_pc = "loop"
    /\ nmsgs < MaxMsgs
    /\ nmsgs' = nmsgs + 1
    /\ ssh_output' = ssh_output \o from_utf8_lossy(data)
    /\ delivered' = delivered \o DrainedLines(line_buffer \o from_utf8_lossy(data),
                                              IF ext = 1 THEN StderrPrefix ELSE <<>>)
    /\ line_buffer' = DrainedRest(line_buffer \o from_utf8_lossy(data))
    /\ UNCHANGED <<ssh_pc, remote_exit, code, ssh_result, eof, orchVars, pureVars>>

\* Some(ChannelMsg::ExitStatus { exit_status }): sent once, when the command ended
RecvExitStatus ==
    /\ ssh_pc = "loop"
    /\ code = None
    /\ code' = Some(remote_exit)
    /\ UNCHANGED <<nmsgs, ssh_pc, remote_exit, ssh_output, line_buffer, delivered, ssh_result,
                   eof, orchVars, pureVars>>

\* An Eof arm that breaks without looking at line_buffer.
RecvEof_NoFlush ==
    /\ ssh_pc = "loop"
    /\ ssh_pc' = "after_loop"
    /\ eof' = TRUE
    /\ UNCHANGED <<nmsgs, remote_exit, ssh_output, code, line_buffer, delivered, ssh_result,
                   orchVars, pureVars>>

\* Some(ChannelMsg::Eof)
RecvEof ==
    /\ ssh_pc = "loop"
    /\ delivered' = IF line_buffer # <<>> THEN Append(delivered, line_buffer) ELSE delivered
    /\ ssh_pc' = "after_loop"
    /\ eof' = TRUE
    /\ UNCHANGED <<nmsgs, remote_exit, ssh_output, code, line_buffer, ssh_result, orchVars, pureVars>>

\* None: the channel was closed
RecvNone ==
    /\ ssh_pc = "loop"
    /\ ssh_pc' = "after_loop"
    /\ UNCHANGED <<remote_exit, nmsgs, ssh_output, code, line_buffer, delivered, ssh_result,
                   eof, orchVars, pureVars>>

\* `_ => {}`: any other channel message (window adjust, success, ...)
RecvOther ==
    /\ ssh_pc = "loop"
    /\ nmsgs < MaxMsgs
    /\ nmsgs' = nmsgs + 1
    /\ UNCHANGED <<ssh_pc, remote_exit, ssh_output, code, line_buffer, delivered, ssh_result,
                   eof, orchVars, pureVars>>

\* ssh.rs 94-104
SshReturn ==
    /\ ssh_pc = "after_loop"
    /\ ssh_result' =
            IF IsSome(code) /\ Unwrap(code) # 0
            THEN Some(SshErr(ErrCommand(Unwrap(code), Trim(ssh_output))))
            ELSE Some(SshOk(ssh_output))
    /\ ssh_pc' = "done"
    /\ UNCHANGED <<remote_exit, nmsgs, ssh_output, code, line_buffer, delivered, eof,
                   orchVars, pureVars>>

SshInit ==
    /\ ssh_pc = "connect"
    /\ remote_exit \in ExitStatuses
    /\ nmsgs = 0
    /\ ssh_output = <<>>
    /\ code = None
    /\ line_buffer = <<>>
    /\ delivered = <<>>
    /\ ssh_result = None
    /\ eof = FALSE

SshNext ==
    \/ SshConnect
    \/ SshAuthenticate
    \/ SshOpenChannel
    \/ \E data \in DataChunks : RecvData(data)
    \/ \E ext \in ExtCodes : \E data \in ExtChunksOf(ext) : RecvExtendedData(data, ext)
    \/ RecvExitStatus
    \/ RecvEof
    \/ RecvNone
    \/ RecvOther
    \/ SshReturn

InitSsh == OrchIdle /\ SshInit /\ MpIdle /\ CkIdle /\ PxIdle

SpecSsh == InitSsh /\ [][SshNext]_vars

-----------------------------------------------------------------------------
(* The read loop as a function of the Data messages it receives before Eof  *)
(* (ssh.rs 51-92 with only the Data and Eof arms taken).                     *)

\* bytes of one byte sequence given to the delivery
MaxBytes == 4

\* The bytes of "o", newline and the two bytes of one two-byte character.
Bytes == {"o", NL, "C3", "A9"}
ByteSeqsUpTo(n) == UNION {[1..k -> Bytes] : k \in 0..n}

\* The loop over the Data messages `chunks`, with line_buffer `buf` and the lines
\* `lines` already handed to the callback, ended by Eof.
RECURSIVE DataThenEof(_, _, _)
DataThenEof(chunks, buf, lines) ==
    IF chunks = <<>>
    THEN IF buf # <<>> THEN Append(lines, buf) ELSE lines
    ELSE DataThenEof(Tail(chunks),
                     DrainedRest(buf \o from_utf8_lossy(Head(chunks))),
                     lines \o DrainedLines(buf \o from_utf8_lossy(Head(chunks)), <<>>))

CkInit ==
    /\ ck_bytes \in ByteSeqsUpTo(MaxBytes)
    /\ ck_offset \in 0..Len(ck_bytes)
    /\ ck_whole = None
    /\ ck_split = None

\* One Data message with all the bytes, then Eof.
CkDeliverWhole ==
    /\ ck_whole = None
    /\ ck_whole' = Some(DataThenEof(<<ck_bytes>>, <<>>, <<>>))
    /\ UNCHANGED <<ck_bytes, ck_offset, ck_split, orchVars, sshVars, mpVars, pxVars>>

\* Two Data messages, the bytes split at ck_offset, then Eof.
CkDeliverSplit ==
    /\ ck_split = None
    /\ ck_split' = Some(DataThenEof(<<SubSeq(ck_bytes, 1, ck_offset),
                                      SubSeq(ck_bytes, ck_offset + 1, Len(ck_bytes))>>,
                                    <<>>, <<>>))
    /\ UNCHANGED <<ck_bytes, ck_offset, ck_whole, orchVars, sshVars, mpVars, pxVars>>

InitChunking == OrchIdle /\ SshIdle /\ MpIdle /\ CkInit /\ PxIdle

NextChunking == CkDeliverWhole \/ CkDeliverSplit

SpecChunking == InitChunking /\ [][NextChunking]_vars

-----------------------------------------------------------------------------
(* get_missing_passwords applied to any roster, store and filter.           *)

Usernames == {"a", "b"}
ServerEntries == {Server("H", "10.0.0.1", u, os) : u \in Usernames, os \in OsType}
RostersUpTo(n) == UNION {[1..k -> ServerEntries] : k \in 0..n}
Stores == UNION {[dom -> {"pw1"}] : dom \in SUBSET Usernames}

MpInit ==
    /\ mp_servers \in RostersUpTo(MaxRoster)
    /\ mp_passwords \in Stores
    /\ mp_filter \in OsFilters
    /\ mp_result = None

MpApply ==
    /\ mp_result = None
    /\ mp_result' = Some(get_missing_passwords(mp_servers, mp_passwords, mp_filter))
    /\ UNCHANGED <<mp_servers, mp_passwords, mp_filter, orchVars, sshVars, ckVars, pxVars>>

InitMissing == OrchIdle /\ SshIdle /\ MpInit /\ CkIdle /\ PxIdle

NextMissing == MpApply

SpecMissing == InitMissing /\ [][NextMissing]_vars

-----------------------------------------------------------------------------
(* parse_clixml as a function of its argument.  The argument is put         *)
(* together from at most MaxPieces pieces of markup and text, or is one of  *)
(* the sample texts.                                                        *)

\* pieces of one argument of parse_clixml
MaxPieces == 3

OpenObj == PatObj \o <<">">>
OpenS == <<"<", "S", ">">>
OpenSError == PatS \o PatError \o <<">">>
OpenSWarning == PatS \o PatWarning \o <<">">>
OpenSVerbose == PatS \o PatVerbose \o <<">">>

Pieces ==
    { OpenObj, OpenS, OpenSError, OpenSWarning, OpenSVerbose, PatCloseS,
      PatSD, PatCloseSD,
      <<"x">>, <<" ">>, <<"U+00E9">>, PatCrLf, PatLt }

RECURSIVE Concat(_)
Concat(pieces) == IF pieces = <<>> THEN <<>> ELSE Head(pieces) \o Concat(Tail(pieces))

PieceTexts(n) == {Concat(ps) : ps \in UNION {[1..k -> Pieces] : k \in 0..n}}

\* `<S S="Error">Bad_x000D__x000A_Thing</S>`
SampleError == OpenSError \o <<"B", "a", "d">> \o PatCrLf \o <<"T", "h", "i", "n", "g">> \o PatCloseS
\* `<Obj><SD>p</SD><S>x</S>`
SampleProgress == OpenObj \o PatSD \o <<"p">> \o PatCloseSD \o OpenS \o <<"x">> \o PatCloseS

\* `<Obj><ToString>x</ToString><SD>p</SD>`
SampleToString ==
    OpenObj \o PatToString \o <<"x">> \o PatCloseToString \o PatSD \o <<"p">> \o PatCloseSD

SampleTexts == {SampleError, SampleProgress, SampleToString}

\* One <S> record: an opening tag (the untagged one inside an <Obj>), a content
\* of up to MaxPieces pieces of text, and the closing tag.
OpenTags == {OpenObj \o OpenS, OpenSError, OpenSWarning, OpenSVerbose}
ContentPieces == { <<"x">>, <<" ">>, <<"U+00E9">>, PatCrLf, PatLt }
Contents(n) == UNION {[1..k -> ContentPieces] : k \in 0..n}
Records(n) == {open \o Concat(content) \o PatCloseS : open \in OpenTags, content \in Contents(n)}

PxInit ==
    /\ px_input \in PieceTexts(MaxPieces) \cup Records(MaxPieces) \cup SampleTexts
    /\ px_result = None

PxApply ==
    /\ px_result = None
    /\ px_result' = Some(parse_clixml(px_input))
    /\ UNCHANGED <<px_input, orchVars, sshVars, mpVars, ckVars>>

InitParse == OrchIdle /\ SshIdle /\ MpIdle /\ CkIdle /\ PxInit

NextParse == PxApply

SpecParse == InitParse /\ [][NextParse]_vars

-----------------------------------------------------------------------------
(* Properties of the orchestrator and its executor threads (Spec).          *)

\* C1: in every reachable state a host has at most one live executor thread, and
\* a host with a live executor thread has its running flag set: run_command never
\* dispatches onto a host that is already running.
C1_OneExecutorPerHost ==
    \A h \in Hosts :
        /\ Len(threads[h]) <= 1
        /\ Len(threads[h]) = 1 => is_running[h]

\* run_command(test_cmd, no filter) was called while host 1 was still running the
\* info_cmd_linux it had been dispatched before, and host 1 kept its one executor.
C1_Witness ==
    /\ Len(servers) = 1
    /\ last_command = Some(PendingCommand("test_cmd", None))
    /\ dispatched[1] = Some(PendingCommand("info_cmd_linux", Some("Linux")))
    /\ ContainsKey(passwords, servers[1].username)
    /\ Len(threads[1]) = 1
    /\ is_running[1]

\* C2: the recovery pass that consumes the authFailed flag of host H leaves as
\* pending command the command and filter whose executor failed authentication on H.
C2_RecoveryRearmsFailedCommand ==
    [][Tick => \A h \in Hosts :
                  (auth_failed[h] /\ ~auth_failed'[h]) => pending_command' = failed_job[h]]_vars

\* C3: once the recovery pass has prompted for the username of host H, a password
\* submission that leaves no credential missing for the pending filter (a filter
\* that covers H) dispatches H: running is set, the status is Connecting and one
\* more executor is spawned on H.
C3_SubmitRedispatchesFailedHost ==
    [][(/\ \E password_input \in PasswordInputs : SubmitPassword(password_input)
        /\ IsSome(recovering)
        /\ IsSome(pending_command)
        /\ MatchesFilter(servers[Unwrap(recovering)], Unwrap(pending_command).os_filter)
        /\ get_missing_passwords(servers, passwords', Unwrap(pending_command).os_filter) = <<>>)
       => /\ is_running'[Unwrap(recovering)]
          /\ status'[Unwrap(recovering)] = "Connecting..."
          /\ Len(threads'[Unwrap(recovering)]) = Len(threads[Unwrap(recovering)]) + 1]_vars

\* The hosts the filter covers whose username has no stored password.
C4_HostsMissing(os_filter) ==
    {h \in Hosts : /\ os_filter = None \/ servers[h].os_type = os_filter[1]
                   /\ servers[h].username \notin DOMAIN passwords}

\* C4: start_command(C, F) called while a host matching F has no stored password
\* changes no host's running, status or output, spawns no executor, makes {C, F}
\* the pending command, makes the username of the first such host in roster order
\* the awaiting-credential username and leaves no error message.
C4_StartWithMissingDispatchesNothing ==
    [][\A b \in Buttons :
          (StartCommand(b) /\ C4_HostsMissing(b.os_filter) # {})
          => /\ UNCHANGED <<output, is_running, status, auth_failed, threads>>
             /\ pending_command' = Some([command |-> b.command, os_filter |-> b.os_filter])
             /\ \E h \in C4_HostsMissing(b.os_filter) :
                    /\ \A g \in C4_HostsMissing(b.os_filter) : h <= g
                    /\ password_needed_for' = Some(servers[h].username)
             /\ password_error' = None]_vars

\* start_command(test_cmd, no filter) found b's password missing and dispatched
\* nothing, although host 1 matches, is idle and has its password on file.
C4_Witness ==
    /\ Len(servers) = 2
    /\ last_start = Some(PendingCommand("test_cmd", None))
    /\ pending_command = Some(PendingCommand("test_cmd", None))
    /\ password_needed_for = Some("b")
    /\ password_error = None
    /\ ContainsKey(passwords, "a")
    /\ ~is_running[1] /\ threads[1] = <<>> /\ status[1] = "Done"
    /\ ~is_running[2] /\ threads[2] = <<>> /\ status[2] = "Ready"

\* C5: the command an authentication-failure recovery pass re-arms is the one
\* given to the most recent start_command call.
C5_RecoveryRearmsLastStart ==
    [][(Tick /\ \E h \in Hosts : auth_failed[h]) => pending_command' = last_start]_vars

\* C7: a recovery pass that finds a flagged host acts on the first one in roster
\* order only: it resets that host's flag, removes that host's username from the
\* store, makes it the awaiting-credential username and sets the wrong-password
\* message; a pass that finds no flagged host changes nothing.
C7_RecoveryActsOnFirstFlaggedHost ==
    [][Tick =>
         IF \E h \in Hosts : auth_failed[h]
         THEN \E h \in Hosts :
                 /\ auth_failed[h]
                 /\ \A g \in 1..(h - 1) : ~auth_failed[g]
                 /\ \A g \in Hosts : auth_failed'[g] = (auth_failed[g] /\ g # h)
                 /\ DOMAIN passwords' = DOMAIN passwords \ {servers[h].username}
                 /\ \A u \in DOMAIN passwords' : passwords'[u] = passwords[u]
                 /\ password_needed_for' = Some(servers[h].username)
                 /\ password_error' = Some(servers[h].username)
                 /\ UNCHANGED <<output, is_running, status, threads, last_command>>
         ELSE UNCHANGED <<hostVars, appVars>>]_vars

\* Both hosts had their flag set and the pass acted on host 1 only.
C7_Witness ==
    /\ Len(servers) = 2
    /\ ui_pc = "input"
    /\ recovering = Some(1)
    /\ ~auth_failed[1]
    /\ auth_failed[2]
    /\ password_needed_for = Some(servers[1].username)
    /\ password_error = Some(servers[1].username)
    /\ ~ContainsKey(passwords, servers[1].username)

\* The results of an executor that are errors other than an authentication rejection.
C8_OtherErrors == {"ConnectFailed", "ChannelError", "CommandFailed"}

\* C8: an executor that ended with an error other than an authentication
\* rejection never sets the host's authFailed flag and leaves the status Error.
C8_OnlyAuthRejectionSetsFlag ==
    [][\A h \in Hosts : \A i \in 1..Len(threads[h]) :
          Thread(h, i).kind \in C8_OtherErrors
          => /\ auth_failed'[h] => auth_failed[h]
             /\ status'[h] # status[h] => status'[h] \in {"Error", "Ready"}]_vars

-----------------------------------------------------------------------------
(* Properties of get_missing_passwords (SpecMissing).                       *)

\* The hosts of the roster the filter covers whose username has no stored password.
C6_HostsMissing ==
    {i \in 1..Len(mp_servers) :
        /\ mp_filter = None \/ mp_servers[i].os_type = mp_filter[1]
        /\ mp_servers[i].username \notin DOMAIN mp_passwords}

\* The first host of C6_HostsMissing that has username u.
C6_FirstHost(u) ==
    CHOOSE i \in C6_HostsMissing :
        /\ mp_servers[i].username = u
        /\ \A j \in C6_HostsMissing : mp_servers[j].username = u => i <= j

\* C6: get_missing_passwords returns exactly the usernames of the hosts matching
\* the filter that have no stored password, each once, in the order of their
\* first host in the roster.
C6_MissingExactDistinctOrdered ==
    IsSome(mp_result) =>
        LET missing == Unwrap(mp_result) IN
        /\ {missing[k] : k \in 1..Len(missing)}
              = {mp_servers[i].username : i \in C6_HostsMissing}
        /\ \A j, k \in 1..Len(missing) :
              j < k => /\ missing[j] # missing[k]
                       /\ C6_FirstHost(missing[j]) < C6_FirstHost(missing[k])

\* The function was applied to a roster in which two covered hosts share a missing
\* username and a host outside the filter has another missing username.
C6_Witness ==
    /\ IsSome(mp_result)
    /\ IsSome(mp_filter)
    /\ \E i, j \in C6_HostsMissing :
            i < j /\ mp_servers[i].username = mp_servers[j].username
    /\ \E k \in 1..Len(mp_servers) :
            /\ mp_servers[k].os_type # mp_filter[1]
            /\ mp_servers[k].username \notin DOMAIN mp_passwords
            /\ \A i \in C6_HostsMissing : mp_servers[i].username # mp_servers[k].username
    /\ Len(Unwrap(mp_result)) = 1

-----------------------------------------------------------------------------
(* Properties of connect_and_execute_with_callback (SpecSsh).               *)

\* C9: when the channel delivered its Eof and the function has returned, the
\* result is a command-failed error carrying the remote exit status if that
\* status is non-zero, and success only if it is zero.
C9_ResultFollowsExitStatus ==
    (ssh_pc = "done" /\ eof) =>
        /\ Unwrap(ssh_result).ok <=> remote_exit = 0
        /\ ~Unwrap(ssh_result).ok =>
              SubSeq(Unwrap(ssh_result).error, 1, 2)
                  = <<"Command failed with exit code", ToString(remote_exit)>>

\* The characters the two streams carry, apart from the newline both carry.
C10_PrimaryChars == {"o", "U+00E9", "U+FFFD"}
C10_ExtendedChars == {"e"}

\* C10: no line delivered to the callback holds characters of both streams.
C10_LinesOfOneStream ==
    \A k \in 1..Len(delivered) :
        ~ /\ \E c \in 1..Len(delivered[k]) : delivered[k][c] \in C10_PrimaryChars
          /\ \E c \in 1..Len(delivered[k]) : delivered[k][c] \in C10_ExtendedChars

-----------------------------------------------------------------------------
(* Properties of the read loop as a function of its messages (SpecChunking). *)

\* C11: for a byte sequence of several lines and any split offset, the callback
\* gets the same lines in the same order whether the bytes arrive as one Data
\* message or as two Data messages split at that offset, each followed by Eof.
C11_ChunkingIndependent ==
    (IsSome(ck_whole) /\ IsSome(ck_split) /\ Len(Unwrap(ck_whole)) >= 2)
        => Unwrap(ck_split) = Unwrap(ck_whole)

-----------------------------------------------------------------------------
(* Properties of the orchestrator and its executor threads (Spec), continued. *)

\* A step of the executor of host h: its thread record changes and no thread is added.
C12_ExecutorStep(h) ==
    /\ threads'[h] # threads[h]
    /\ Len(threads'[h]) <= Len(threads[h])
    /\ ui_pc' = ui_pc

\* The executor of host g ends although it has not reached the end of its closure
\* and has not failed itself.
C12_Aborted(g) ==
    /\ threads[g] # <<>>
    /\ threads'[g] = <<>>
    /\ threads[g][1].pc # "set_running_false"
    /\ poisoned'[g] = poisoned[g]

\* C12: a step of the executor of host h leaves output, running, status and
\* authFailed of every other host unchanged, and no executor is ended from outside:
\* neither by another host's executor nor by what its failure sets off.
C12_HostsIsolated ==
    [][/\ \A h \in Hosts : C12_ExecutorStep(h) =>
              \A g \in Hosts \ {h} :
                  /\ output'[g] = output[g]
                  /\ is_running'[g] = is_running[g]
                  /\ status'[g] = status[g]
                  /\ auth_failed'[g] = auth_failed[g]
                  /\ threads'[g] = threads[g]
       /\ \A g \in Hosts : ~C12_Aborted(g)]_vars


\* C13: no failure escapes an executor and leaves running stuck at true: while the
\* process lives, a host whose running is true has a live executor thread that
\* will set it to false (the safety part of "every dispatch terminates").
C13_RunningHasExecutor ==
    \A h \in Hosts : (is_running[h] /\ ui_pc # "exited") => threads[h] # <<>>

-----------------------------------------------------------------------------
(* Properties of the application on the one-host roster (SpecOneHost).      *)

\* The output of H1 after the banner and the lines `lines` of the command.
RECURSIVE C14_WithLines(_, _)
C14_WithLines(buf, lines) ==
    IF lines = <<>> THEN buf
    ELSE C14_WithLines(Pushed(buf, parse_clixml(Head(lines)).text), Tail(lines))

C14_OutputAtReturn(lines) ==
    append_output(C14_WithLines(append_output(<<>>, ConnectingBanner(1)), lines), <<"---">>)

C14_LinesACommandPrints ==
    UNION { {SubSeq(out, 1, k) : k \in 0..Len(out)} : out \in RemoteOutputs }

\* The first click is a command button whose filter matches H1.
C14_Start ==
    /\ clicks = 0 /\ clicks' = 1
    /\ last_start' # last_start
    /\ MatchesFilter(servers[1], Unwrap(last_start').os_filter)

\* The second click submits a password for the command that is pending.
C14_Submit ==
    /\ clicks = 1 /\ clicks' = 2
    /\ IsSome(pending_command)
    /\ passwords' # passwords

\* The command of H1's executor has succeeded and no third click was made.
C14_Succeeded ==
    /\ clicks = 2
    /\ threads[1] # <<>>
    /\ threads[1][1].kind = "Ok"

\* C14: on the roster of one Linux host H1 of user "a" with an empty store,
\* start_command prompts for "a" and dispatches nothing; the following
\* submit_password dispatches H1; the status of H1 then only goes from Connecting
\* to Running and from Running to a final status; and when connection,
\* authentication and command succeed with exit code 0, the output holds the lines
\* of the command and H1 eventually is Done with running false.
C14_EndToEnd ==
    /\ [][C14_Start =>
            /\ password_needed_for' = Some("a")
            /\ IsSome(pending_command')
            /\ UNCHANGED hostVars]_vars
    /\ [][C14_Submit =>
            /\ Len(threads'[1]) = 1
            /\ is_running'[1]
            /\ status'[1] = "Connecting..."
            /\ pending_command' = None /\ password_needed_for' = None]_vars
    /\ [][(clicks = 2 /\ clicks' = 2 /\ status'[1] # status[1]) =>
            \/ status[1] = "Connecting..." /\ status'[1] = "Running..."
            \/ status[1] = "Running..." /\ status'[1] \in {"Done", "Error", "Auth Failed"}]_vars
    /\ [][(clicks = 2 /\ ~C14_Succeeded /\ C14_Succeeded') =>
            /\ status[1] = "Running..."
            /\ output'[1] = C14_OutputAtReturn(threads[1][1].raw)]_vars
    /\ [](clicks = 2 /\ status[1] = "Done" =>
            \E lines \in C14_LinesACommandPrints :
                output[1] = append_output(C14_OutputAtReturn(lines), <<">>> Done">>))
    /\ (C14_Succeeded ~>
            (clicks > 2 \/ (status[1] = "Done" /\ ~is_running[1] /\ threads[1] = <<>>)))

\* H1 is Done after exactly the two clicks, with a line of the command in its output.
C14_Witness ==
    /\ servers = OneHostRoster
    /\ clicks = 2
    /\ status[1] = "Done"
    /\ ~is_running[1]
    /\ threads[1] = <<>>
    /\ \E lines \in C14_LinesACommandPrints :
          /\ lines # <<>>
          /\ output[1] = append_output(C14_OutputAtReturn(lines), <<">>> Done">>)

-----------------------------------------------------------------------------
(* Properties of the orchestrator and its executor threads (Spec), continued. *)

\* The executor of host h has passed authenticate_password with success.
C15_Authenticated(h) ==
    /\ threads[h] # <<>>
    /\ \/ threads[h][1].pc = "channel"
       \/ threads[h][1].kind \in {"Ok", "ChannelError", "CommandFailed"}

\* C15: the status of a host follows the state machine: it becomes Running only
\* when the password authentication of its executor has succeeded, Auth Failed
\* only directly from Connecting, and Done only from Running.
C15_StatusStateMachine ==
    [][\A h \in Hosts : status'[h] # status[h] =>
          /\ status'[h] = "Running..." => (status[h] = "Connecting..." /\ C15_Authenticated(h)')
          /\ status'[h] = "Auth Failed" => status[h] = "Connecting..."
          /\ status'[h] = "Done" => status[h] = "Running..."]_vars


\* A credential submission that re-runs the dispatch of the pending command.
C16_SubmitDispatches ==
    /\ clicks' = clicks + 1
    /\ passwords' # passwords
    /\ IsSome(pending_command)
    /\ pending_command' = None

\* The pending command has completed on host h: h is Done after the two clicks
\* that started and dispatched the only command so far, which is the command a
\* recovery pass has made pending again.
C16_CompletedPending(h) ==
    /\ clicks = 2
    /\ status[h] = "Done"
    /\ ~is_running[h]
    /\ pending_command = last_command

\* C16: the dispatch re-run by submit_password does not dispatch again a host
\* matching the pending filter on which the pending command is in flight or on
\* which it has completed with status Done.
C16_SubmitOnlyFillsIn ==
    [][C16_SubmitDispatches =>
          \A h \in Hosts :
              (/\ MatchesFilter(servers[h], Unwrap(pending_command).os_filter)
               /\ is_running[h] \/ C16_CompletedPending(h))
                  => threads'[h] = threads[h]]_vars

-----------------------------------------------------------------------------
(* Properties of connect_and_execute_with_callback (SpecSsh), continued.    *)

\* What only a function that went on to open the channel leaves behind.
C17_WentOn ==
    \/ ssh_pc \in {"open_channel", "loop", "after_loop"}
    \/ nmsgs > 0 \/ IsSome(code) \/ eof
    \/ ssh_output # <<>> \/ line_buffer # <<>>

\* C17: the command is requested only after the password was accepted: when the
\* authentication is rejected the function returns the authentication-failed
\* error at once, with no session channel opened, no exec request sent and the
\* line callback never invoked.
C17_RejectionRunsNothing ==
    /\ []((ssh_result = Some(SshErr(ErrAuth)) \/ ssh_pc \in {"connect", "authenticate"})
            => (~C17_WentOn /\ delivered = <<>>))
    /\ [](ssh_result = Some(SshErr(ErrAuth)) => ssh_pc = "done")
    /\ [][(ssh_pc = "authenticate" /\ ssh_pc' # "open_channel")
            => (ssh_pc' = "done" /\ IsSome(ssh_result') /\ ~Unwrap(ssh_result').ok)]_vars

\* The function has returned the authentication-failed error.
C17_Witness ==
    /\ ssh_pc = "done"
    /\ ssh_result = Some(SshErr(ErrAuth))
    /\ delivered = <<>>

-----------------------------------------------------------------------------
(* Properties of the orchestrator and its executor threads (Spec), continued. *)

\* The hosts matching the filter whose username has no entry in `store`.
C18_HostsMissing(store, os_filter) ==
    {h \in Hosts : /\ os_filter = None \/ servers[h].os_type = os_filter[1]
                   /\ servers[h].username \notin DOMAIN store}

C18_UsersMissing(store, os_filter) ==
    {servers[h].username : h \in C18_HostsMissing(store, os_filter)}

\* The hosts the pending command is dispatched to.
C18_Dispatched(os_filter) ==
    {h \in Hosts : /\ os_filter = None \/ servers[h].os_type = os_filter[1]
                   /\ ~is_running[h]}

\* C18: submit_password while a command is pending stores the entered password
\* under the prompted username; if a username is still missing for the pending
\* filter it keeps the pending command, dispatches nothing and prompts for the
\* first username still missing; otherwise it dispatches the pending command
\* under its filter and clears the pending command and the prompt.  A prompt not
\* opened by an authentication failure names a missing username, so that every
\* submission lowers the number of missing usernames by one.
C18_SubmitStoresThenPromptsOrDispatches ==
    [][\A pw \in PasswordInputs :
          (SubmitPassword(pw) /\ IsSome(pending_command)) =>
            LET user    == Unwrap(password_needed_for)
                pending == Unwrap(pending_command)
                before  == C18_UsersMissing(passwords, pending.os_filter)
                after   == C18_UsersMissing(passwords', pending.os_filter)
                hosts   == C18_HostsMissing(passwords', pending.os_filter)
            IN  /\ DOMAIN passwords' = DOMAIN passwords \cup {user}
                /\ passwords'[user] = pw
                /\ \A u \in DOMAIN passwords \ {user} : passwords'[u] = passwords[u]
                /\ recovering = None =>
                      (user \in before /\ Cardinality(after) = Cardinality(before) - 1)
                /\ IF hosts # {}
                   THEN /\ pending_command' = pending_command
                        /\ UNCHANGED hostVars
                        /\ \E h \in hosts :
                              /\ \A g \in hosts : h <= g
                              /\ password_needed_for' = Some(servers[h].username)
                   ELSE /\ pending_command' = None
                        /\ password_needed_for' = None
                        /\ \A h \in Hosts :
                              IF h \in C18_Dispatched(pending.os_filter)
                              THEN /\ Len(threads'[h]) = Len(threads[h]) + 1
                                   /\ threads'[h][Len(threads'[h])].cmd = pending.command
                                   /\ threads'[h][Len(threads'[h])].password =
                                          passwords'[servers[h].username]
                                   /\ is_running'[h]
                              ELSE /\ threads'[h] = threads[h]
                                   /\ is_running'[h] = is_running[h]
                                   /\ output'[h] = output[h]
                                   /\ status'[h] = status[h]]_vars

\* A command started with the two usernames a and b missing was dispatched to both
\* hosts by the second of two submissions.
C18_Witness ==
    /\ Len(servers) = 2
    /\ servers[2].username = "b"
    /\ clicks = 3
    /\ DOMAIN passwords = {"a", "b"}
    /\ pending_command = None /\ password_needed_for = None
    /\ threads[1] # <<>> /\ threads[1][1].pc = "set_status_running"
    /\ threads[2] # <<>> /\ threads[2][1].pc = "set_status_running"

-----------------------------------------------------------------------------
(* Properties of the application whose frames keep coming (SpecFrames).     *)

\* The hosts whose flag a step consumes.
C19_Consumed == {h \in Hosts : auth_failed[h] /\ ~auth_failed'[h]}

C19_HostIds == 1..2

\* C19: a recovery pass consumes exactly one authFailed flag and leaves the others
\* set; a flag is consumed only by a pass that evicts the username of its host
\* and prompts for it; and while frames keep coming every flag an executor has
\* set is eventually consumed.
C19_NoAuthFailureLost ==
    /\ [][Tick =>
            /\ Cardinality(C19_Consumed) = IF \E h \in Hosts : auth_failed[h] THEN 1 ELSE 0
            /\ \A h \in Hosts \ C19_Consumed : auth_failed'[h] = auth_failed[h]]_vars
    /\ [][\A h \in C19_Consumed :
            /\ ui_pc = "tick" /\ ui_pc' = "input"
            /\ ~ContainsKey(passwords', servers[h].username)
            /\ password_needed_for' = Some(servers[h].username)]_vars
    /\ \A h \in C19_HostIds :
            (h \in Hosts /\ auth_failed[h])
                ~> (h \in Hosts /\ (~auth_failed[h] \/ ui_pc = "exited"))

\* A pass has acted on host 1 while the flag of host 2, of another username, stays
\* set for the pass of the next frame.
C19_Witness ==
    /\ Len(servers) = 2
    /\ servers[2].username = "b"
    /\ ui_pc = "tick"
    /\ recovering = Some(1)
    /\ ~auth_failed[1] /\ auth_failed[2]
    /\ threads[2] = <<>>
    /\ password_needed_for = Some("a")
    /\ ~ContainsKey(passwords, "a") /\ ContainsKey(passwords, "b")

-----------------------------------------------------------------------------
(* Properties of the orchestrator and its executor threads (Spec), continued. *)

\* C20: the credential store is empty initially and changes in two ways only:
\* submit_password inserts or overwrites the entry of the username being prompted
\* for, and a recovery pass removes the entry of the username of a host whose
\* authFailed flag was set.  start_command with run_command, Cancel, Clear and
\* the executor threads leave it unchanged.
C20_StoreChangesOnlyBySubmitAndRecovery ==
    /\ passwords = EmptyMap
    /\ [][passwords' # passwords =>
            \/ \E pw \in PasswordInputs :
                  /\ SubmitPassword(pw)
                  /\ passwords' = MapInsert(passwords, Unwrap(password_needed_for), pw)
            \/ /\ Tick
               /\ \E h \in Hosts :
                     /\ auth_failed[h] /\ ~auth_failed'[h]
                     /\ passwords' = MapRemove(passwords, servers[h].username)]_vars
    /\ [][passwords' # passwords =>
            ~(\/ \E b \in Buttons : StartCommand(b)
              \/ Cancel \/ ClearOutput \/ ClearStatus \/ NoInput
              \/ ExecutorStep
              \/ \E h \in Hosts : ShowOutputPanics(h))]_vars

\* Both ways have changed the store: the passwords of a and b were submitted and
\* a recovery pass has removed the entry of a.
C20_Witness ==
    /\ clicks = 3
    /\ IsSome(recovering)
    /\ password_error = Some("a")
    /\ DOMAIN passwords = {"b"}
    /\ passwords["b"] = "pw2"

-----------------------------------------------------------------------------
(* Properties of parse_clixml (SpecParse).                                  *)

\* The text holds `pat` somewhere.
C21_Holds(text, pat) ==
    \E k \in 1..(Len(text) - Len(pat) + 1) : SubSeq(text, k, k + Len(pat) - 1) = pat

\* The text holds none of the markers `<Obj` and `<S `.
C21_MarkerFree(text) ==
    /\ ~C21_Holds(text, <<"<", "O", "b", "j">>)
    /\ ~C21_Holds(text, <<"<", "S", " ">>)

\* C21: on an input that holds no structured-output marker parse_clixml returns
\* the input, character for character.
C21_IdentityOnMarkerFree ==
    (IsSome(px_result) /\ C21_MarkerFree(px_input))
        => (Unwrap(px_result).ok /\ Unwrap(px_result).text = px_input)

\* parse_clixml was applied to the marker-free text `é<S></S>`.
C21_Witness ==
    /\ px_input = <<"U+00E9">> \o OpenS \o PatCloseS
    /\ IsSome(px_result)
    /\ Unwrap(px_result).text = px_input


\* What a piece of content stands for once it is unescaped.
C22_Decoded(piece) ==
    IF piece = PatCrLf THEN <<NL>> ELSE IF piece = PatLt THEN <<"<">> ELSE piece

RECURSIVE C22_DecodedAll(_)
C22_DecodedAll(content) ==
    IF content = <<>> THEN <<>>
    ELSE C22_Decoded(Head(content)) \o C22_DecodedAll(Tail(content))

C22_Prefix(open) ==
    IF open = OpenSError THEN <<"[", "E", "R", "R", "O", "R", "]", " ">>
    ELSE IF open = OpenSWarning THEN <<"[", "W", "A", "R", "N", "I", "N", "G", "]", " ">>
    ELSE IF open = OpenSVerbose THEN <<"[", "V", "E", "R", "B", "O", "S", "E", "]", " ">>
    ELSE <<>>

C22_WitnessUntagged ==
    /\ px_input = OpenObj \o OpenS \o <<" ", "x">> \o PatCrLf \o PatCloseS
    /\ px_result = Some([ok |-> TRUE, text |-> <<"x", NL>>])

C28_SpanTexts == {<<"x">>, <<"p">>}

\* C28: for an input recognised as structured that holds `<SD>text</SD>` with a
\* text that is not empty, wherever the span stands, the result of parse_clixml
\* holds the line `[PROGRESS] text` and holds neither tag of the span.
C28_ProgressSpanOwnLine ==
    \A text \in C28_SpanTexts :
        (/\ IsSome(px_result)
         /\ ~C21_MarkerFree(px_input)
         /\ C21_Holds(px_input, PatSD \o text \o PatCloseSD))
        => /\ Unwrap(px_result).ok
           /\ C21_Holds(Unwrap(px_result).text,
                        <<"[", "P", "R", "O", "G", "R", "E", "S", "S", "]", " ">> \o text \o <<NL>>)
           /\ ~C21_Holds(Unwrap(px_result).text, PatSD)
           /\ ~C21_Holds(Unwrap(px_result).text, PatCloseSD)

-----------------------------------------------------------------------------
(* Properties of connect_and_execute_with_callback (SpecSsh), continued.    *)

\* A delivered line without the prefix the callback was given it with.
C23_Body(line) ==
    IF line # <<>> /\ line[1] = "[stderr] " THEN Tail(line) ELSE line

\* The text received so far that ends in a newline, as the lines it is made of.
RECURSIVE C23_Text(_)
C23_Text(lines) ==
    IF lines = <<>> THEN <<>> ELSE C23_Body(Head(lines)) \o <<NL>> \o C23_Text(Tail(lines))

C23_HasNewline(text) == \E k \in 1..Len(text) : text[k] = NL

\* C23: the callback is invoked for completed lines only.  Before Eof the lines
\* delivered are, in order, the text received up to its last newline, and what
\* follows that newline waits in the buffer; a step adds lines behind those
\* delivered before; Eof delivers a residual line that is not empty once, as the
\* last line, and nothing is delivered after it.
C23_OnlyCompletedLines ==
    /\ [](~eof =>
            /\ C23_Text(delivered) \o line_buffer = ssh_output
            /\ ~C23_HasNewline(line_buffer)
            /\ \A k \in 1..Len(delivered) : ~C23_HasNewline(delivered[k]))
    /\ [][/\ Len(delivered') >= Len(delivered)
          /\ SubSeq(delivered', 1, Len(delivered)) = delivered]_vars
    /\ [][(~eof /\ eof') =>
             delivered' = IF line_buffer = <<>> THEN delivered
                          ELSE Append(delivered, line_buffer)]_vars
    /\ [][eof => delivered' = delivered]_vars

\* Eof has flushed the residual line "o" behind two completed lines.
C23_Witness ==
    /\ eof
    /\ Len(delivered) = 3
    /\ line_buffer = <<"o">>
    /\ delivered[3] = <<"o">>
    /\ ssh_output = C23_Text(SubSeq(delivered, 1, 2)) \o <<"o">>


\* The characters, the newline apart, that the streams carry: the primary stream,
\* the extended stream of type 1, and an extended stream of another type.
C24_PrimaryChars == {"o", "U+00E9", "U+FFFD"}
C24_StderrChars == {"e"}
C24_OtherChars == {"d"}

C24_Prefixed(line) == line # <<>> /\ line[1] = "[stderr] "

C24_AllIn(text, chars) == text # <<>> /\ \A k \in 1..Len(text) : text[k] \in chars

\* C24: a delivered line whose bytes all arrived on the extended stream of type 1
\* carries the prefix `[stderr] `, and one whose bytes all arrived on the primary
\* stream or on an extended stream of another type does not.
C24_PrefixIffStderr ==
    \A k \in 1..Len(delivered) :
        /\ C24_AllIn(C23_Body(delivered[k]), C24_StderrChars) => C24_Prefixed(delivered[k])
        /\ C24_AllIn(C23_Body(delivered[k]), C24_PrimaryChars \cup C24_OtherChars)
              => ~C24_Prefixed(delivered[k])

-----------------------------------------------------------------------------
(* Properties of the orchestrator and its executor threads (Spec), continued. *)

C25_TerminalStatuses == {"Done", "Error", "Auth Failed"}

\* The piece of output is the terminal banner that goes with the status.  The
\* banner passes through parse_clixml like every appended text; the error texts
\* of RemoteOutputs hold no complete CLIXML record, so it is stored as written.
C25_BannerOf(piece, st) ==
    IF st = "Done" THEN piece = <<">>> Done", NL>>
    ELSE piece # <<>> /\ piece[1] = ">>> ERROR:"

\* The output ends with the separator and the banner of the status, as far as a
\* Clear in between has left them.
C25_BannerWritten(out, st) ==
    /\ Len(out) >= 1 => C25_BannerOf(out[Len(out)], st)
    /\ Len(out) >= 2 => out[Len(out) - 1] = <<"---", NL>>

\* C25: an executor writes the separator and the terminal banner, then sets the
\* terminal status, and only then sets running to false; a host whose running is
\* false has the status Ready, Done, Error or Auth Failed, never Connecting or
\* Running, also when Clear interleaves.
C25_FinishOrder ==
    /\ [](\A h \in Hosts : ~is_running[h] => status[h] \in C25_TerminalStatuses \cup {"Ready"})
    /\ [][\A h \in Hosts :
            (status'[h] # status[h] /\ status'[h] \in C25_TerminalStatuses)
                => /\ C25_BannerWritten(output[h], status'[h])
                   /\ output'[h] = output[h]
                   /\ is_running[h] /\ is_running'[h]]_vars
    /\ [][\A h \in Hosts :
            (is_running[h] /\ ~is_running'[h])
                => /\ status[h] \in C25_TerminalStatuses \cup {"Ready"}
                   /\ status'[h] = status[h]
                   /\ output'[h] = output[h]]_vars

\* The executor of host 1 has finished with an error: banner, status, running false.
C25_Witness ==
    /\ Len(servers) >= 1
    /\ threads[1] = <<>>
    /\ ~is_running[1]
    /\ status[1] = "Error"
    /\ Len(output[1]) >= 3
    /\ output[1][Len(output[1]) - 1] = <<"---", NL>>
    /\ output[1][Len(output[1])][1] = ">>> ERROR:"


\* C26: Cancel clears the pending command, the awaited username and the error
\* message and changes nothing else: the password store, the last command and
\* every host's output, running, status and authFailed are as before and no
\* executor is spawned; submit_password with no prompt open changes nothing.
C26_CancelClearsOnlyThePrompt ==
    /\ [][Cancel => /\ pending_command' = None
                    /\ password_needed_for' = None
                    /\ password_error' = None
                    /\ passwords' = passwords
                    /\ last_command' = last_command
                    /\ output' = output /\ is_running' = is_running
                    /\ status' = status /\ auth_failed' = auth_failed
                    /\ threads' = threads /\ dispatched' = dispatched]_vars
    /\ [][(password_needed_for = None /\ <<hostVars, appVars>>' # <<hostVars, appVars>>)
            => \A password_input \in PasswordInputs : ~submit_password(password_input)]_vars

\* The prompt a start_command opened on an empty store was closed by the next
\* click with the store still empty: it was cancelled.
C26_Witness ==
    /\ clicks = 2
    /\ last_start = Some([command |-> "test_cmd", os_filter |-> None])
    /\ passwords = EmptyMap
    /\ password_needed_for = None
    /\ pending_command = None
    /\ password_error = None
    /\ ui_pc = "tick"

\* The buffer `new` is the buffer `old` followed by at least one more piece, each
\* of them a text that ends in a newline.
C27_Grew(old, new) ==
    /\ Len(new) > Len(old)
    /\ SubSeq(new, 1, Len(old)) = old
    /\ \A k \in (Len(old) + 1)..Len(new) : C23_HasNewline(new[k])

\* C27: a step that changes a host's output either is a dispatch onto that host,
\* which leaves the connecting banner alone in it, or the Clear action on that
\* host, which empties it, or a step of an executor of that host, which appends
\* text ending in a newline behind the unchanged earlier content; start_command
\* and submit_password without dispatch, Cancel and the recovery pass change no
\* output.
C27_OutputOnlyGrows ==
    [][\A h \in Hosts :
          output'[h] # output[h]
          => \/ /\ Len(threads'[h]) > Len(threads[h])
                /\ clicks' = clicks + 1
                /\ output'[h] = append_output(<<>>, ConnectingBanner(h))
             \/ /\ ui_pc' = "clear_status" /\ ui_i' = h
                /\ output'[h] = <<>>
                /\ threads' = threads
             \/ /\ uiVars' = uiVars /\ appVars' = appVars
                /\ threads[h] # <<>>
                /\ C27_Grew(output[h], output'[h])]_vars

\* An executor has appended a line behind the connecting banner.
C27_Witness ==
    /\ Len(servers) >= 1
    /\ Len(output[1]) >= 2
    /\ output[1][1] = append_output(<<>>, ConnectingBanner(1))[1]
    /\ threads[1] # <<>>
    /\ threads[1][1].pc = "channel"

\* C29: in every reachable state a pending command is held exactly when a
\* username is awaited, the awaited username has no entry in the password store,
\* and the wrong-password message is set only while a username is awaited.
C29_PromptConsistent ==
    /\ IsSome(pending_command) <=> IsSome(password_needed_for)
    /\ IsSome(password_needed_for) => ~ContainsKey(passwords, Unwrap(password_needed_for))
    /\ IsSome(password_error) => IsSome(password_needed_for)

\* While the prompt for b was open with a command pending, another command was
\* dispatched onto the host of a.
C29_Witness ==
    /\ Len(servers) = 2
    /\ password_needed_for = Some("b")
    /\ IsSome(pending_command)
    /\ ContainsKey(passwords, "a")
    /\ pending_command = Some(PendingCommand("test_cmd", None))
    /\ last_start = Some([command |-> "info_cmd_linux", os_filter |-> Some("Linux")])
    /\ last_command = Some(PendingCommand("info_cmd_linux", Some("Linux")))
    /\ clicks = 3
    /\ threads[1] # <<>>

\* C30: when the recovery pass consumes the flag of a host whose executor was
\* dispatched with a password that the user has since replaced in the store, it
\* neither removes the newly stored password nor reports it as wrong.
C30_KeepsNewPassword ==
    [][\A h \in Hosts :
          (/\ auth_failed[h] /\ ~auth_failed'[h]
           /\ superseded[h]
           /\ ContainsKey(passwords, servers[h].username))
          => /\ passwords' = passwords
             /\ password_error' # Some(servers[h].username)]_vars
=============================================================================
